---- MODULE Spec2Model ----
(***************************************************************************)
(* A model of the SecureCRT route-classification script get_ip_info.py.    *)
(*                                                                         *)
(* Text is modelled as a sequence of characters; a character is a TLA+     *)
(* string of length one, except the two control characters ESC (0x1b) and  *)
(* BEL (0x07), which TLA+ cannot write and which are the atoms "ESC" and   *)
(* "BEL" (and the grave accent, the atom "GRAVE").  The fixed Chinese      *)
(* literals of the script (its labels) are atoms too: a label literal is a *)
(* one-element sequence holding its atom.                                  *)
(***************************************************************************)
EXTENDS Integers, Sequences, FiniteSets, TLC

(***************************************************************************)
(* Characters and character classes                                        *)
(***************************************************************************)
ESC == "ESC"
BEL == "BEL"
\* the grave accent 0x60, which a TLA+ string cannot hold
GRAVE == "GRAVE"

\* str.strip() / str.split() / regex \s : whitespace characters
Whitespace == {" ", "\t", "\n", "\r", "\f"}

\* regex \d
Digits == {"0", "1", "2", "3", "4", "5", "6", "7", "8", "9"}

UpperCase == {"A", "B", "C", "D", "E", "F", "G", "H", "I", "J", "K", "L", "M",
              "N", "O", "P", "Q", "R", "S", "T", "U", "V", "W", "X", "Y", "Z"}

LowerCase == {"a", "b", "c", "d", "e", "f", "g", "h", "i", "j", "k", "l", "m",
              "n", "o", "p", "q", "r", "s", "t", "u", "v", "w", "x", "y", "z"}

\* regex class [0-?] : 0x30 .. 0x3f
ParamBytes == Digits \cup {":", ";", "<", "=", ">", "?"}

\* regex class [ -/] : 0x20 .. 0x2f
IntermBytes == {" ", "!", "\"", "#", "$", "%", "&", "'", "(", ")", "*", "+",
                ",", "-", ".", "/"}

\* regex class [@-~] : 0x40 .. 0x7e
FinalBytes == {"@"} \cup UpperCase \cup {"[", "\\", "]", "^", "_", GRAVE}
              \cup LowerCase \cup {"{", "|", "}", "~"}

\* str.splitlines() line boundaries
LineBreaks == {"\n", "\r", "\f"}

(***************************************************************************)
(* Python str operations                                                   *)
(***************************************************************************)
\* s[i:] for a 1-based index i
From(s, i) == SubSeq(s, i, Len(s))

\* the least element of a set S of integers, default if S is empty
Least(S, default) ==
  IF S = {} THEN default ELSE CHOOSE j \in S : \A k \in S : j <= k

\* the greatest element of a set S of integers, default if S is empty
Greatest(S, default) ==
  IF S = {} THEN default ELSE CHOOSE j \in S : \A k \in S : j >= k

\* the first index >= i of s holding a character outside class, Len(s)+1 if none
SkipIn(s, i, class) ==
  Least({j \in i..Len(s) : s[j] \notin class}, Len(s) + 1)

\* the first index >= i of s holding a non-whitespace character, Len(s)+1 if none
SkipWS(s, i) == SkipIn(s, i, Whitespace)

\* the last index <= i of s holding a non-whitespace character, 0 if none
SkipWSBack(s, i) == Greatest({j \in 1..i : s[j] \notin Whitespace}, 0)

\* str.lstrip()
LStrip(s) == From(s, SkipWS(s, 1))

\* str.rstrip()
RStrip(s) == SubSeq(s, 1, SkipWSBack(s, Len(s)))

\* str.strip()
Strip(s) == LStrip(RStrip(s))

\* str.startswith(p)
StartsWith(s, p) == Len(p) <= Len(s) /\ SubSeq(s, 1, Len(p)) = p

\* str.endswith(p)
EndsWith(s, p) == Len(p) <= Len(s) /\ SubSeq(s, Len(s) - Len(p) + 1, Len(s)) = p

\* p occurs in s at the 1-based index i
OccursAt(s, p, i) == i + Len(p) - 1 <= Len(s) /\ SubSeq(s, i, i + Len(p) - 1) = p

\* the first 1-based index >= i where p occurs in s, 0 if none
FindFrom(s, p, i) == Least({j \in i..(Len(s) + 1) : OccursAt(s, p, j)}, 0)

\* str.find(p), as a 1-based index, 0 when Python returns -1
Find(s, p) == FindFrom(s, p, 1)

\* the Python expression  p in s
Contains(s, p) == Find(s, p) /= 0

\* str.splitlines() from the index start on: "\r\n" is one boundary, and
\* there is no empty last line
RECURSIVE SplitLinesFrom(_, _)
SplitLinesFrom(s, start) ==
  LET i == Least({j \in start..Len(s) : s[j] \in LineBreaks}, Len(s) + 1)
      nxt == IF s[i] = "\r" /\ i < Len(s) /\ s[i + 1] = "\n" THEN i + 2 ELSE i + 1
  IN  IF start > Len(s) THEN <<>>
      ELSE IF i > Len(s) THEN <<SubSeq(s, start, Len(s))>>
      ELSE <<SubSeq(s, start, i - 1)>> \o SplitLinesFrom(s, nxt)

SplitLines(s) == SplitLinesFrom(s, 1)

\* the first index >= i of s holding a whitespace character, Len(s)+1 if none
SkipWord(s, i) == Least({j \in i..Len(s) : s[j] \in Whitespace}, Len(s) + 1)

\* str.split(): the maximal runs of non-whitespace characters
RECURSIVE SplitFrom(_, _)
SplitFrom(s, i) ==
  LET b == SkipWS(s, i)
      e == SkipWord(s, b)
  IN  IF b > Len(s) THEN <<>>
      ELSE <<SubSeq(s, b, e - 1)>> \o SplitFrom(s, e)

Split(s) == SplitFrom(s, 1)

(***************************************************************************)
(* clean_terminal_output: the two regular expressions and their re.sub     *)
(***************************************************************************)
\* \x1b\[\d+D matched at i: the index after the match, 0 if it does not match
CursorBackEnd(s, i) ==
  IF i + 1 <= Len(s) /\ s[i] = ESC /\ s[i + 1] = "["
    THEN LET e == SkipIn(s, i + 2, Digits)
         IN  IF e > i + 2 /\ e <= Len(s) /\ s[e] = "D" THEN e + 1 ELSE 0
    ELSE 0

\* _LINE_OVERWRITE_PATTERN  \s*\x1b\[\d+D\s+\x1b\[\d+D  matched at i: the index
\* after the match, 0 if it does not match.  The greedy runs need no
\* backtracking: what follows each run is a character outside its class.
LineOverwriteEnd(s, i) ==
  LET a == SkipIn(s, i, Whitespace)
      b == CursorBackEnd(s, a)
  IN  IF b = 0 THEN 0
      ELSE LET c == SkipIn(s, b, Whitespace)
           IN  IF c = b THEN 0 ELSE CursorBackEnd(s, c)

\* _LINE_OVERWRITE_PATTERN.sub('\n', s) from the index i on: the leftmost
\* match, then the rest after it
RECURSIVE SubLineOverwrite(_, _)
SubLineOverwrite(s, i) ==
  LET m == Least({j \in i..Len(s) : /\ s[j] \in Whitespace \cup {ESC}
                                      /\ LineOverwriteEnd(s, j) /= 0}, 0)
  IN  IF m = 0 THEN From(s, i)
      ELSE SubSeq(s, i, m - 1) \o <<"\n">>
           \o SubLineOverwrite(s, LineOverwriteEnd(s, m))

\* \].*?(?:\x07|\x1B\\) after the "]": the index after the terminator, 0 if
\* a newline or the end of the text comes first (. matches no newline)
OscEnd(s, i) ==
  LET stop == Least({j \in i..Len(s) :
                       \/ s[j] = BEL
                       \/ s[j] = ESC /\ j < Len(s) /\ s[j + 1] = "\\"
                       \/ s[j] = "\n"}, 0)
  IN  IF stop = 0 \/ s[stop] = "\n" THEN 0
      ELSE IF s[stop] = BEL THEN stop + 1
      ELSE stop + 2

\* _ANSI_ESCAPE_PATTERN  \x1B(?:\[[0-?]*[ -/]*[@-~]|\].*?(?:\x07|\x1B\\))
\* matched at i: the index after the match, 0 if it does not match
AnsiEscapeEnd(s, i) ==
  IF ~(i + 1 <= Len(s) /\ s[i] = ESC) THEN 0
  ELSE IF s[i + 1] = "["
    THEN LET a == SkipIn(s, i + 2, ParamBytes)
             b == SkipIn(s, a, IntermBytes)
         IN  IF b <= Len(s) /\ s[b] \in FinalBytes THEN b + 1 ELSE 0
  ELSE IF s[i + 1] = "]" THEN OscEnd(s, i + 2)
  ELSE 0

\* _ANSI_ESCAPE_PATTERN.sub('', s) from the index i on
RECURSIVE SubAnsiEscape(_, _)
SubAnsiEscape(s, i) ==
  LET m == Least({j \in i..Len(s) : s[j] = ESC /\ AnsiEscapeEnd(s, j) /= 0}, 0)
  IN  IF m = 0 THEN From(s, i)
      ELSE SubSeq(s, i, m - 1) \o SubAnsiEscape(s, AnsiEscapeEnd(s, m))

clean_terminal_output(text) ==
  SubAnsiEscape(SubLineOverwrite(text, 1), 1)

(***************************************************************************)
(* send_command_and_read_output, lines 172-190: what is returned for an    *)
(* accumulated capture                                                     *)
(***************************************************************************)
\* a faulty trimming, to test the properties of the trimming against: the
\* echo cut at the first place of the command text wherever it stands (the
\* test of line 176 left out)
CleanedOutputCutsAnyEcho(output_accumulator, command, prompt) ==
  LET cleaned1 == clean_terminal_output(output_accumulator)
      command_sent == Strip(command)
      command_start_index == Find(cleaned1, command_sent)
      cleaned2 ==
        IF command_start_index /= 0
          THEN LStrip(From(cleaned1, command_start_index + Len(command_sent)))
          ELSE cleaned1
      r == RStrip(cleaned2)
      cleaned3 ==
        IF EndsWith(r, prompt)
          THEN RStrip(IF Len(prompt) = 0 THEN <<>>
                      ELSE SubSeq(r, 1, Len(r) - Len(prompt)))
          ELSE cleaned2
  IN  Strip(cleaned3)

CleanedOutput(output_accumulator, command, prompt) ==
  LET cleaned1 == clean_terminal_output(output_accumulator)
      command_sent == Strip(command)
      command_start_index == Find(cleaned1, command_sent)
      cleaned2 ==
        IF StartsWith(LStrip(cleaned1), command_sent) /\ command_start_index /= 0
          THEN LStrip(From(cleaned1, command_start_index + Len(command_sent)))
          ELSE cleaned1
      r == RStrip(cleaned2)
      cleaned3 ==
        IF EndsWith(r, prompt)
          THEN RStrip(IF Len(prompt) = 0 THEN <<>>
                      ELSE SubSeq(r, 1, Len(r) - Len(prompt)))
          ELSE cleaned2
  IN  Strip(cleaned3)

(***************************************************************************)
(* parse_routing_info                                                      *)
(***************************************************************************)
None == [ok |-> FALSE]

DestinationMask ==
  <<"D", "e", "s", "t", "i", "n", "a", "t", "i", "o", "n", "/", "M", "a", "s", "k">>

NextHop == <<"N", "e", "x", "t", "H", "o", "p">>

\* a faulty loop, to test the properties of the field mapping against: the
\* flag taken from the cost column, parts[3]
RECURSIVE ParseLinesFlagFromCost(_, _, _)
ParseLinesFlagFromCost(lines, i, header_found) ==
  IF i > Len(lines) THEN None
  ELSE LET line == Strip(lines[i])
           parts == Split(line)
       IN  IF Contains(line, DestinationMask) /\ Contains(line, NextHop)
             THEN ParseLinesFlagFromCost(lines, i + 1, TRUE)
           ELSE IF header_found /\ line /= <<>> /\ Len(parts) >= 7
             THEN [ok |-> TRUE,
                   destination |-> parts[1],
                   protocol |-> parts[2],
                   flag |-> parts[4],
                   nexthop |-> parts[6],
                   interface |-> parts[7]]
           ELSE ParseLinesFlagFromCost(lines, i + 1, header_found)

\* a faulty loop, to test the properties of the row search against: the
\* search given up at the first row of fewer than 7 fields
RECURSIVE ParseLinesStopsAtShortRow(_, _, _)
ParseLinesStopsAtShortRow(lines, i, header_found) ==
  IF i > Len(lines) THEN None
  ELSE LET line == Strip(lines[i])
           parts == Split(line)
       IN  IF Contains(line, DestinationMask) /\ Contains(line, NextHop)
             THEN ParseLinesStopsAtShortRow(lines, i + 1, TRUE)
           ELSE IF header_found /\ line /= <<>>
             THEN IF Len(parts) >= 7
                    THEN [ok |-> TRUE,
                          destination |-> parts[1],
                          protocol |-> parts[2],
                          flag |-> parts[5],
                          nexthop |-> parts[6],
                          interface |-> parts[7]]
                    ELSE None
           ELSE ParseLinesStopsAtShortRow(lines, i + 1, header_found)

\* the loop of parse_routing_info from line number i of lines on
RECURSIVE ParseLines(_, _, _)
ParseLines(lines, i, header_found) ==
  IF i > Len(lines) THEN None
  ELSE LET line == Strip(lines[i])
           parts == Split(line)
       IN  IF Contains(line, DestinationMask) /\ Contains(line, NextHop)
             THEN ParseLines(lines, i + 1, TRUE)
           ELSE IF header_found /\ line /= <<>> /\ Len(parts) >= 7
             THEN [ok |-> TRUE,
                   destination |-> parts[1],
                   protocol |-> parts[2],
                   flag |-> parts[5],
                   nexthop |-> parts[6],
                   interface |-> parts[7]]
           ELSE ParseLines(lines, i + 1, header_found)

\* a faulty parser, to test the handling of parser failures against:
\* header_found starting as True, so that rows need no header before them
ParseWithoutHeader(output) == ParseLines(SplitLines(output), 1, TRUE)

parse_routing_info(output) == ParseLines(SplitLines(output), 1, FALSE)

(***************************************************************************)
(* Literals of the script                                                  *)
(***************************************************************************)
\* line 138: more_prompt = "---- More ----"
more_prompt == <<"-", "-", "-", "-", " ", "M", "o", "r", "e", " ", "-", "-", "-", "-">>

\* line 310: f"dis ip rou {ip}\n"
DisIpRou == <<"d", "i", "s", " ", "i", "p", " ", "r", "o", "u", " ">>

LookupCommand(ip) == DisIpRou \o ip \o <<"\n">>

\* line 331: f"dis cur int {interface}\n"
DisCurInt == <<"d", "i", "s", " ", "c", "u", "r", " ", "i", "n", "t", " ">>

DescCommand(interface) == DisCurInt \o interface \o <<"\n">>

\* line 337: "description dT:"
DescriptionMarker ==
  <<"d", "e", "s", "c", "r", "i", "p", "t", "i", "o", "n", " ", "d", "T", ":">>

\* line 340: the prefix of the pattern AH-HF-([^.]+)
AHHF == <<"A", "H", "-", "H", "F", "-">>

IBGP == <<"I", "B", "G", "P">>

\* the labels: each Chinese literal is one atom
LabelNoOutput == <<"NoOutput">>              \* line 315: "命令无输出"
LabelSRUnmatched == <<"SRUnmatched">>        \* line 345: "SR描述未匹配提取规则"
LabelXinCheng == <<"XinCheng">>              \* line 352: "新城"
LabelChuSheng == <<"ChuSheng">>              \* line 355: "出省地址"
LabelNoRule == <<"NoRule">>                  \* line 358: "未匹配任何已知规则"
LabelNoRoute == <<"NoRoute">>                \* line 360: "未找到路由信息"
LabelError == <<"Error">>                    \* line 363: "处理时发生错误"

\* line 349: f"未找到接口 {interface} 的'description dT:'"
LabelDescNotFound(interface) == <<"NoDescFor:">> \o interface \o <<":dT">>

(***************************************************************************)
(* The classification of main, lines 319-360, as functions                 *)
(***************************************************************************)
\* a faulty chain, to test the decision table against: the next-hop rules
\* placed before the protocol and flag rules
RuleNexthopFirst(route_info) ==
  IF route_info.nexthop /= <<>> /\ StartsWith(route_info.nexthop, <<"1", "2", "4">>)
    THEN 3
  ELSE IF route_info.nexthop /= <<>> /\ StartsWith(route_info.nexthop, <<"2", "0", "2">>)
    THEN 4
  ELSE IF route_info.protocol = IBGP THEN 1
  ELSE IF route_info.flag = <<"D">> /\ route_info.interface /= <<>> THEN 2
  ELSE 5

\* a faulty chain, to test the properties of the follow-up against: the
\* test of rule 2 standing before the test of rule 1
RuleFlagFirst(route_info) ==
  IF route_info.flag = <<"D">> /\ route_info.interface /= <<>> THEN 2
  ELSE IF route_info.protocol = IBGP THEN 1
  ELSE IF route_info.nexthop /= <<>> /\ StartsWith(route_info.nexthop, <<"1", "2", "4">>)
    THEN 3
  ELSE IF route_info.nexthop /= <<>> /\ StartsWith(route_info.nexthop, <<"2", "0", "2">>)
    THEN 4
  ELSE 5

\* the rule the if/elif chain of lines 326-358 selects for a route record
Rule(route_info) ==
  IF route_info.protocol = IBGP THEN 1
  ELSE IF route_info.flag = <<"D">> /\ route_info.interface /= <<>> THEN 2
  ELSE IF route_info.nexthop /= <<>> /\ StartsWith(route_info.nexthop, <<"1", "2", "4">>)
    THEN 3
  ELSE IF route_info.nexthop /= <<>> /\ StartsWith(route_info.nexthop, <<"2", "0", "2">>)
    THEN 4
  ELSE 5

\* [^.]* at i: the first index >= i of s holding a ".", Len(s)+1 if none
SkipNotDot(s, i) == Least({j \in i..Len(s) : s[j] = "."}, Len(s) + 1)

\* re.search(r'AH-HF-([^.]+)', line) from index i on: <<group 1>> for the
\* leftmost match, <<>> if there is none
RECURSIVE SearchAHHF(_, _)
SearchAHHF(line, i) ==
  LET at == FindFrom(line, AHHF, i)
      b == at + Len(AHHF)
      e == SkipNotDot(line, b)
  IN  IF at = 0 THEN <<>>
      ELSE IF e > b THEN <<SubSeq(line, b, e - 1)>>
      ELSE SearchAHHF(line, at + 1)

\* a faulty scan, to test the properties of the extraction against: the
\* marker taken as "description", as in get_interface_description (line 239)
RECURSIVE DescriptionLabelFromAnyDescription(_, _, _)
DescriptionLabelFromAnyDescription(lines, i, interface) ==
  IF i > Len(lines) THEN LabelDescNotFound(interface)
  ELSE LET line == Strip(lines[i])
           match == SearchAHHF(line, 1)
       IN  IF StartsWith(line, SubSeq(DescriptionMarker, 1, 11))
             THEN IF match /= <<>> THEN match[1] ELSE LabelSRUnmatched
             ELSE DescriptionLabelFromAnyDescription(lines, i + 1, interface)

\* lines 334-349: the label for the follow-up output, from line number i on
RECURSIVE DescriptionLabelFrom(_, _, _)
DescriptionLabelFrom(lines, i, interface) ==
  IF i > Len(lines) THEN LabelDescNotFound(interface)
  ELSE LET line == Strip(lines[i])
           match == SearchAHHF(line, 1)
       IN  IF StartsWith(line, DescriptionMarker)
             THEN IF match /= <<>> THEN match[1] ELSE LabelSRUnmatched
             ELSE DescriptionLabelFrom(lines, i + 1, interface)

DescriptionLabel(desc_output, interface) ==
  DescriptionLabelFrom(SplitLines(desc_output), 1, interface)

(***************************************************************************)
(* The remote device and the session: the environment of the script        *)
(***************************************************************************)
\* the largest number of targets in the spreadsheet
MaxTargets == 2

\* the largest number of "---- More ----" banners in one response
MaxMore == 2

\* the prompt the device prints
DevicePrompt == <<"<", "R", ">">>

\* what the device prints to erase a banner once the space arrives
OverwriteSeq ==
  <<ESC, "[", "1", "6", "D", " ", " ", ESC, "[", "1", "6", "D">>

RECURSIVE JoinWords(_)
JoinWords(words) ==
  IF words = <<>> THEN <<>>
  ELSE IF Len(words) = 1 THEN words[1]
  ELSE words[1] \o <<" ">> \o JoinWords(Tail(words))

HeaderLine == JoinWords(<<DestinationMask, <<"P">>, <<"F">>, NextHop, <<"I", "f">>>>)

\* a routing-table row: destination proto pre cost flags nexthop interface
RouteRow(ip, proto, flag, nexthop, interface) ==
  JoinWords(<<ip, proto, <<"0">>, <<"0">>, flag, nexthop, interface>>)

\* the identifiers the spreadsheet may hold: an address with a direct route
\* and an address the device has no route to
Targets == {<<"1">>, <<"2">>}

\* what the device prints for "dis ip rou <ip>", as lines
RoutingTable(ip) ==
  CASE ip = <<"1">> ->
         <<HeaderLine, RouteRow(ip, <<"O">>, <<"D">>, <<"1", "2", "4", ".", "1">>, <<"G", "1">>)>>
    [] OTHER -> <<>>

\* what the device prints for "dis cur int <interface>", as lines
InterfaceConfig(interface) ==
  CASE interface = <<"G", "1">> ->
         <<DescriptionMarker \o AHHF \o <<"X", "A", ".", "r">>>>
    [] interface = <<"G", "3">> ->
         <<DescriptionMarker \o <<"x">>>>
    [] OTHER -> <<<<"#">>>>

\* the response to a command: its echo, then the lines of the answer
ResponseLines(command) ==
  LET typed == Strip(command)
  IN  <<typed>> \o
      (IF StartsWith(typed, Strip(DisIpRou))
         THEN RoutingTable(Strip(From(typed, Len(Strip(DisIpRou)) + 1)))
       ELSE IF StartsWith(typed, Strip(DisCurInt))
         THEN InterfaceConfig(Strip(From(typed, Len(Strip(DisCurInt)) + 1)))
       ELSE <<>>)

\* lines as the device sends them: each ended by CR LF
RECURSIVE JoinLines(_)
JoinLines(lines) ==
  IF lines = <<>> THEN <<>>
  ELSE lines[1] \o <<"\r", "\n">> \o JoinLines(Tail(lines))

\* the next k lines of a pending response as they arrive, after the erasure
\* of the banner when the response was resumed by a space
Emit(entry, k) ==
  (IF entry.resumed THEN OverwriteSeq ELSE <<>>)
  \o JoinLines(SubSeq(entry.lines, 1, k))

\* the pending response after its next k lines arrived
Rest(entry, k) ==
  [entry EXCEPT !.lines = SubSeq(entry.lines, k + 1, Len(entry.lines)),
                !.resumed = FALSE]

(***************************************************************************)
(* State                                                                   *)
(***************************************************************************)
VARIABLES
  pc,                 \* the position of main
  connected,          \* script_tab.Session.Connected
  inclMatch,          \* whether ReadString returns the matched text too
  logger,             \* main's logger, in a run whose log writes work and
                      \* in a run of the same steps whose log writes fail
  pending,            \* the responses the device still owes, oldest first
  prompt,             \* main's prompt
  nrows,              \* the number of rows of the spreadsheet
  ips,                \* main's ips, up to the row the for loop is at
  idx,                \* the number of the target the for loop is at
  results,            \* main's results
  final_result,       \* main's final_result
  phase,              \* "lookup" or "desc": the command main is at
  command,            \* the command of send_command_and_read_output
  output_accumulator, \* send_command_and_read_output's output_accumulator
  endKind,            \* how the last read loop of this target ended
  output,             \* what the last send_command_and_read_output returned
  output1,            \* main's output1
  route_info,         \* main's route_info
  ncmds,              \* the number of commands written for the current target
  spaces,             \* the spaces written by the current read loop
  chunks,             \* what each ReadString of the current read loop returned
  stale,              \* the current capture holds output of an earlier command
  outcome,            \* how the current target went so far
  outcomes            \* how each finished target went

vars ==
  <<pc, connected, inclMatch, logger, pending, prompt, nrows, ips, idx, results, final_result,
    phase, command, output_accumulator, endKind, output, output1, route_info,
    ncmds, spaces, chunks, stale, outcome, outcomes>>

deviceVars == <<connected, inclMatch, pending>>

(***************************************************************************)
(* SecureCRTLogger, lines 12-65                                            *)
(***************************************************************************)
\* the two runs that are stepped together: they differ in whether the
\* writes to the log file work
Writes == {"work", "fail"}

\* before line 269 there is no logger
NoLogger == [is_ready |-> FALSE, file_error_shown |-> FALSE]

\* __init__, lines 18-38: is_ready is True at the end, also when the old
\* log file could not be removed (_prepare_log_file catches the OSError)
SecureCRTLogger == [is_ready |-> TRUE, file_error_shown |-> FALSE]

\* a faulty log, to test the properties of the logger against: the write
\* without the try/except of lines 55-63, so that a failing write raises
logRaisesOnFailure(self, write_fails) ==
  [self |-> self,
   written |-> self.is_ready /\ ~write_fails,
   raised |-> self.is_ready /\ write_fails]

\* log, lines 48-65, for a logger self and a write that fails or not: the
\* logger after the call, whether the line was written, and whether the
\* call raised
log(self, write_fails) ==
  IF ~self.is_ready
    THEN [self |-> self, written |-> FALSE, raised |-> FALSE]
  ELSE IF write_fails
    THEN [self |-> [self EXCEPT !.file_error_shown = TRUE],
          written |-> FALSE, raised |-> FALSE]
  ELSE [self |-> self, written |-> TRUE, raised |-> FALSE]

\* the loggers of the two runs after a call of log in each
Logged(loggers) == [w \in Writes |-> log(loggers[w], w = "fail").self]

\* a step of main that calls logger.log
LogCalls == logger' = Logged(logger)
batchVars == <<prompt, nrows, ips, idx, results, outcomes>>
targetVars == <<final_result, phase, command, endKind, output, output1,
                route_info, ncmds, outcome>>
loopVars == <<output_accumulator, spaces, chunks, stale>>

\* the pcs at which main has returned
Returned == {"return_not_connected", "return_no_prompt", "return_no_file", "end"}

Init ==
  /\ pc = "main"
  /\ connected \in BOOLEAN
  /\ inclMatch \in BOOLEAN
  /\ logger = [w \in Writes |-> NoLogger]
  /\ pending = <<>>
  /\ prompt = <<>>
  /\ nrows = 0
  /\ ips = <<>>
  /\ idx = 0
  /\ results = <<>>
  /\ final_result = <<>>
  /\ phase = "lookup"
  /\ command = <<>>
  /\ output_accumulator = <<>>
  /\ endKind = "none"
  /\ output = <<>>
  /\ output1 = <<>>
  /\ route_info = None
  /\ ncmds = 0
  /\ spaces = 0
  /\ chunks = <<>>
  /\ stale = FALSE
  /\ outcome = "clean"
  /\ outcomes = <<>>

(***************************************************************************)
(* main, lines 259-300                                                     *)
(***************************************************************************)
\* lines 259-266: the script runs only in a connected session
CheckConnected ==
  /\ pc = "main"
  /\ pc' = IF connected THEN "get_prompt" ELSE "return_not_connected"
  /\ UNCHANGED <<deviceVars, batchVars, targetVars, loopVars>>
  /\ UNCHANGED logger

\* what the screen shows when get_prompt looks at it: the cursor row and the
\* cursor column
ScreenStates ==
  {[row |-> DevicePrompt, column |-> Len(DevicePrompt) + 1],
   [row |-> <<" ", " ">>, column |-> 3],
   [row |-> DevicePrompt, column |-> 1]}

\* get_prompt, line 115: Get(row, 1, row, CurrentColumn - 1).strip()
get_prompt(screen) == Strip(SubSeq(screen.row, 1, screen.column - 1))

\* a faulty main, to test the properties of the prompt against: lines 288-290
\* left out, so that the run goes on with an empty prompt
GetPromptGoesOn ==
  /\ pc = "get_prompt"
  /\ \E screen \in ScreenStates :
       /\ prompt' = get_prompt(screen)
       /\ pc' = "file_dialog"
  /\ UNCHANGED <<deviceVars, nrows, ips, idx, results, outcomes, targetVars,
                 loopVars>>
  /\ logger' = Logged([w \in Writes |-> SecureCRTLogger])

\* lines 269-290: the logger is made and is ready (line 270), the start is
\* logged; get_prompt sends nothing; an empty prompt ends the run
GetPrompt ==
  /\ pc = "get_prompt"
  /\ \E screen \in ScreenStates :
       /\ prompt' = get_prompt(screen)
       /\ pc' = IF prompt' = <<>> THEN "return_no_prompt" ELSE "file_dialog"
  /\ UNCHANGED <<deviceVars, nrows, ips, idx, results, outcomes, targetVars,
                 loopVars>>
  /\ logger' = Logged([w \in Writes |-> SecureCRTLogger])

\* lines 293-301: no file chosen ends the run, else the targets are loaded.
\* The loop reads row i only in iteration i: the model fixes the number of
\* rows here and draws each row when the loop reaches it, which covers every
\* list of at most MaxTargets targets.
ChooseFile ==
  /\ pc = "file_dialog"
  /\ \/ /\ pc' = "return_no_file"
        /\ UNCHANGED nrows
     \/ /\ nrows' \in 0..MaxTargets
        /\ pc' = "for_ip"
  /\ UNCHANGED <<deviceVars, prompt, ips, idx, results, outcomes, targetVars,
                 loopVars>>
  /\ logger' = IF pc' = "return_no_file" THEN logger ELSE Logged(logger)

\* the session drops: the remote end or the network closes it, and what the
\* device still owed never arrives. The script can tell only where it writes
\* or reads, so the drop is placed before one of those steps.
Disconnect ==
  /\ connected
  /\ pc \in {"get_prompt", "file_dialog", "for_ip", "send", "read"}
  /\ connected' = FALSE
  /\ pending' = <<>>
  /\ UNCHANGED <<pc, inclMatch, batchVars, targetVars, loopVars>>
  /\ UNCHANGED logger

(***************************************************************************)
(* main, lines 304-366: the batch loop                                     *)
(***************************************************************************)
\* lines 304-310: the for loop takes the next target; lines 369-384: when
\* none is left, the labels become the column CR of the table and main ends
NextTarget ==
  /\ pc = "for_ip"
  /\ IF idx < nrows
       THEN /\ \E ip \in Targets : ips' = Append(ips, ip)
            /\ idx' = idx + 1
            /\ final_result' = <<>>
            /\ command' = LookupCommand(ips'[idx + 1])
            /\ pc' = "send"
       ELSE /\ pc' = "end"
            /\ UNCHANGED <<ips, idx, final_result, command>>
  /\ UNCHANGED <<deviceVars, prompt, nrows, results, outcomes, phase, endKind,
                 output, output1, route_info, ncmds, outcome, loopVars>>
  /\ LogCalls

\* lines 142-144: tab.Screen.Send(command); output_accumulator = "".
\* A connected device queues its response; a dropped session loses the text.
SendCommand ==
  /\ pc = "send"
  /\ ncmds' = ncmds + 1
  /\ pending' = IF connected
                  THEN Append(pending, [id |-> <<idx, phase>>,
                                        lines |-> ResponseLines(command),
                                        resumed |-> FALSE])
                  ELSE pending
  /\ output_accumulator' = <<>>
  /\ pc' = "read"
  /\ UNCHANGED <<connected, inclMatch, batchVars, final_result, phase, command,
                 endKind, output, output1, route_info, outcome, spaces, chunks,
                 stale>>
  /\ LogCalls

\* lines 154-165: what a MatchIndex other than 1 ends the loop with
EndKind(match_index) ==
  IF match_index = 2 THEN "prompt"
  ELSE IF match_index = 0 THEN "timeout"
  ELSE "unknown"

\* a faulty read loop, to test the properties of the capture against: line
\* 149 written as "output_accumulator = captured_data", keeping the last chunk
ReadIterationKeepsLast(captured_data, match_index) ==
  /\ output_accumulator' = captured_data
  /\ chunks' = Append(chunks, [data |-> captured_data, match |-> match_index])
  /\ IF match_index = 1
       THEN /\ spaces' = spaces + 1
            /\ pc' = "read"
            /\ UNCHANGED <<endKind, output, output1>>
       ELSE /\ endKind' = EndKind(match_index)
            /\ output' = CleanedOutput(output_accumulator', command, prompt)
            /\ output1' = IF phase = "lookup" THEN output' ELSE output1
            /\ pc' = IF phase = "lookup" THEN "classify" ELSE "extract"
            /\ UNCHANGED spaces

\* a faulty read loop, to test the properties of its end against: the break
\* of the timeout branch (line 162) left out, so that the loop reads on
ReadIterationReadsOnAfterTimeout(captured_data, match_index) ==
  /\ output_accumulator' = output_accumulator \o captured_data
  /\ chunks' = Append(chunks, [data |-> captured_data, match |-> match_index])
  /\ IF match_index = 1 \/ match_index = 0
       THEN /\ spaces' = spaces + (IF match_index = 1 THEN 1 ELSE 0)
            /\ pc' = "read"
            /\ UNCHANGED <<endKind, output, output1>>
       ELSE /\ endKind' = EndKind(match_index)
            /\ output' = CleanedOutput(output_accumulator', command, prompt)
            /\ output1' = IF phase = "lookup" THEN output' ELSE output1
            /\ pc' = IF phase = "lookup" THEN "classify" ELSE "extract"
            /\ UNCHANGED spaces

\* lines 148-165 and 172-190, and line 311 or 332 of main: one pass of the
\* while loop for a ReadString that returned captured_data with MatchIndex
\* match_index; when the loop ends, the capture is cleaned and returned
ReadIteration(captured_data, match_index) ==
  /\ output_accumulator' = output_accumulator \o captured_data
  /\ chunks' = Append(chunks, [data |-> captured_data, match |-> match_index])
  /\ IF match_index = 1
       THEN /\ spaces' = spaces + 1
            /\ pc' = "read"
            /\ UNCHANGED <<endKind, output, output1>>
       ELSE /\ endKind' = EndKind(match_index)
            /\ output' = CleanedOutput(output_accumulator', command, prompt)
            /\ output1' = IF phase = "lookup" THEN output' ELSE output1
            /\ pc' = IF phase = "lookup" THEN "classify" ELSE "extract"
            /\ UNCHANGED spaces

\* the device can send: the session is up and it owes a response
Sending == connected /\ pending /= <<>>

\* the current capture takes output of the oldest pending response
TakesStale == pending[1].id /= <<idx, phase>>

\* ReadString matches "---- More ----": k more lines arrived, then the banner;
\* the loop sends a space, the device erases the banner and goes on
ReadMore ==
  /\ pc = "read"
  /\ Sending
  /\ spaces < MaxMore
  /\ \E k \in 1..Len(pending[1].lines) :
       /\ ReadIteration(Emit(pending[1], k)
                          \o (IF inclMatch THEN more_prompt ELSE <<>>), 1)
       /\ pending' = [pending EXCEPT ![1] =
                        [Rest(pending[1], k) EXCEPT !.resumed = TRUE]]
  /\ stale' = (stale \/ TakesStale)
  /\ UNCHANGED <<connected, inclMatch, batchVars, final_result, phase, command,
                 route_info, ncmds, outcome>>
  /\ LogCalls

\* ReadString matches the prompt: the rest of the oldest response arrived
ReadPrompt ==
  /\ pc = "read"
  /\ Sending
  /\ prompt = DevicePrompt
  /\ ReadIteration(Emit(pending[1], Len(pending[1].lines))
                     \o (IF inclMatch THEN prompt ELSE <<>>), 2)
  /\ pending' = Tail(pending)
  /\ stale' = (stale \/ TakesStale)
  /\ UNCHANGED <<connected, inclMatch, batchVars, final_result, phase, command,
                 route_info, ncmds, outcome>>
  /\ LogCalls

\* a faulty timeout branch, to test the properties of timeouts against: what
\* arrived in the read that timed out is not appended
ReadTimeoutDropsText ==
  /\ pc = "read"
  /\ \E k \in 0..(IF Sending THEN Len(pending[1].lines) ELSE 0) :
       /\ ReadIteration(<<>>, 0)
       /\ pending' = IF k = 0 THEN pending
                      ELSE [pending EXCEPT ![1] = Rest(pending[1], k)]
       /\ stale' = (stale \/ (k > 0 /\ TakesStale))
  /\ outcome' = "timeout"
  /\ UNCHANGED <<connected, inclMatch, batchVars, final_result, phase, command,
                 route_info, ncmds>>
  /\ LogCalls

\* ReadString times out: k more lines arrived (none when no device is
\* sending) and no sentinel
ReadTimeout ==
  /\ pc = "read"
  /\ \E k \in 0..(IF Sending THEN Len(pending[1].lines) ELSE 0) :
       /\ ReadIteration(IF k = 0 THEN <<>> ELSE Emit(pending[1], k), 0)
       /\ pending' = IF k = 0 THEN pending
                      ELSE [pending EXCEPT ![1] = Rest(pending[1], k)]
       /\ stale' = (stale \/ (k > 0 /\ TakesStale))
  /\ outcome' = "timeout"
  /\ UNCHANGED <<connected, inclMatch, batchVars, final_result, phase, command,
                 route_info, ncmds>>
  /\ LogCalls

\* the locals of send_command_and_read_output end with the call
EndOfCall ==
  /\ output_accumulator' = <<>>
  /\ spaces' = 0
  /\ chunks' = <<>>
  /\ stale' = FALSE

\* lines 313-360: classify the lookup output, or ask for the description
Classify ==
  /\ pc = "classify"
  /\ IF output1 = <<>>
       THEN /\ final_result' = LabelNoOutput
            /\ pc' = "append"
            /\ UNCHANGED <<route_info, command, phase>>
       ELSE /\ route_info' = parse_routing_info(output1)
            /\ IF ~route_info'.ok
                 THEN /\ final_result' = LabelNoRoute
                      /\ pc' = "append"
                      /\ UNCHANGED <<command, phase>>
               ELSE IF Rule(route_info') = 2
                 THEN /\ command' = DescCommand(route_info'.interface)
                      /\ phase' = "desc"
                      /\ pc' = "send"
                      /\ UNCHANGED final_result
               ELSE /\ final_result' =
                         CASE Rule(route_info') = 1 -> route_info'.nexthop
                           [] Rule(route_info') = 3 -> LabelXinCheng
                           [] Rule(route_info') = 4 -> LabelChuSheng
                           [] OTHER -> LabelNoRule
                    /\ pc' = "append"
                    /\ UNCHANGED <<command, phase>>
  /\ EndOfCall
  /\ UNCHANGED <<deviceVars, batchVars, endKind, output, output1, ncmds, outcome>>
  /\ LogCalls

\* lines 334-349: the label from the follow-up output
ExtractDescription ==
  /\ pc = "extract"
  /\ final_result' = DescriptionLabel(output, route_info.interface)
  /\ pc' = "append"
  /\ EndOfCall
  /\ UNCHANGED <<deviceVars, batchVars, phase, command, endKind, output, output1,
                 route_info, ncmds, outcome>>
  /\ logger' = IF final_result' = LabelDescNotFound(route_info.interface)
                 THEN logger
                 ELSE Logged(logger)

\* a faulty handler, to test the properties of the result list against: the
\* exception leaves the iteration without reaching line 366
UnexpectedErrorEscapes ==
  /\ pc \in {"send", "read", "classify", "extract"}
  /\ final_result' = LabelError
  /\ outcome' = "clean"
  /\ pc' = "for_ip"
  /\ EndOfCall
  /\ phase' = "lookup"
  /\ command' = <<>>
  /\ endKind' = "none"
  /\ output' = <<>>
  /\ output1' = <<>>
  /\ route_info' = None
  /\ ncmds' = 0
  /\ UNCHANGED <<deviceVars, batchVars>>
  /\ LogCalls

\* lines 361-363: an exception raised inside the try block by the step main
\* is at (Send or ReadString raising before they act, or the step failing);
\* what the iteration assigned so far is dead after the handler
UnexpectedError ==
  /\ pc \in {"send", "read", "classify", "extract"}
  /\ final_result' = LabelError
  /\ outcome' = "raise"
  /\ pc' = "append"
  /\ EndOfCall
  /\ phase' = "lookup"
  /\ command' = <<>>
  /\ endKind' = "none"
  /\ output' = <<>>
  /\ output1' = <<>>
  /\ route_info' = None
  /\ ncmds' = 0
  /\ UNCHANGED <<deviceVars, batchVars>>
  /\ LogCalls

\* lines 365-366: results.append(final_result); what the iteration assigned
\* is dead from here on: the next iteration assigns each before reading it
AppendResult ==
  /\ pc = "append"
  /\ results' = Append(results, final_result)
  /\ outcomes' = Append(outcomes, outcome)
  /\ pc' = "for_ip"
  /\ phase' = "lookup"
  /\ command' = <<>>
  /\ endKind' = "none"
  /\ output' = <<>>
  /\ output1' = <<>>
  /\ route_info' = None
  /\ ncmds' = 0
  /\ outcome' = "clean"
  /\ UNCHANGED <<deviceVars, prompt, nrows, ips, idx, final_result, loopVars>>
  /\ LogCalls

Next ==
  \/ CheckConnected
  \/ GetPrompt
  \/ ChooseFile
  \/ Disconnect
  \/ NextTarget
  \/ SendCommand
  \/ ReadMore
  \/ ReadPrompt
  \/ ReadTimeout
  \/ Classify
  \/ ExtractDescription
  \/ UnexpectedError
  \/ AppendResult

Spec == Init /\ [][Next]_vars

(***************************************************************************)
(* Properties of the read loop, lines 142-165                              *)
(***************************************************************************)
\* the chunks of a read loop, concatenated in arrival order
RECURSIVE Flatten(_)
Flatten(cs) ==
  IF cs = <<>> THEN <<>> ELSE cs[1].data \o Flatten(Tail(cs))

\* the reads of the current loop matched the banner n times and then the
\* prompt, for some n >= 0
PagedThenPrompt ==
  /\ chunks /= <<>>
  /\ \A i \in 1..(Len(chunks) - 1) : chunks[i].match = 1
  /\ chunks[Len(chunks)].match = 2

\* C1: when the reads of a loop return the pagination banner n times and then
\* the prompt, the loop has ended having sent exactly n spaces, and the
\* accumulated capture is the concatenation of the n+1 chunks in arrival order
SpacesAndCaptureOfPagedRead ==
  PagedThenPrompt =>
    /\ pc \in {"classify", "extract"}
    /\ spaces = Len(chunks) - 1
    /\ output_accumulator = Flatten(chunks)

\* C1, witness: the banner matched twice, then the prompt, and each of the
\* three chunks brought text
TwoBannersThenPrompt ==
  /\ PagedThenPrompt
  /\ Len(chunks) = 3
  /\ spaces = 2
  /\ \A i \in 1..3 : chunks[i].data /= <<>>

(***************************************************************************)
(* Properties of the batch loop, lines 301-366                             *)
(***************************************************************************)
\* C2: the result list grows by one label per identifier, in input order: the
\* iteration of identifier number idx finds idx - 1 labels, leaves idx labels
\* of which the last is the one it computed, and when the loop has finished
\* there is one label per row of the input, whatever the outcomes were
OneLabelPerIdentifier ==
  /\ Len(ips) = idx
  /\ Len(outcomes) = Len(results)
  /\ pc \in {"send", "read", "classify", "extract", "append"} =>
       Len(results) = idx - 1
  /\ pc = "for_ip" =>
       /\ Len(results) = idx
       /\ idx > 0 => results[idx] = final_result
  /\ pc = "end" =>
       /\ idx = nrows
       /\ Len(results) = nrows

\* C2, witness: a batch of two finished, its first target having raised and
\* its second having timed out
BatchEndedAfterErrorAndTimeout ==
  /\ pc = "end"
  /\ nrows = 2
  /\ outcomes = <<"raise", "timeout">>
  /\ results[1] = LabelError
  /\ Len(results) = 2

(***************************************************************************)
(* What an undisturbed session gives: the reference for C3, C5 and C6      *)
(***************************************************************************)
\* what a read loop captures when the whole response to its command, and
\* nothing else, arrives before the prompt
CleanCapture(cmd) ==
  JoinLines(ResponseLines(cmd)) \o (IF inclMatch THEN DevicePrompt ELSE <<>>)

\* what send_command_and_read_output returns for that capture
CleanReturn(cmd) == CleanedOutput(CleanCapture(cmd), cmd, DevicePrompt)

\* the label lines 313-360 give an identifier processed on its own over an
\* undisturbed session
ExpectedLabel(ip) ==
  LET out1 == CleanReturn(LookupCommand(ip))
      info == parse_routing_info(out1)
  IN  IF out1 = <<>> THEN LabelNoOutput
      ELSE IF ~info.ok THEN LabelNoRoute
      ELSE CASE Rule(info) = 1 -> info.nexthop
             [] Rule(info) = 2 ->
                  DescriptionLabel(CleanReturn(DescCommand(info.interface)),
                                   info.interface)
             [] Rule(info) = 3 -> LabelXinCheng
             [] Rule(info) = 4 -> LabelChuSheng
             [] OTHER -> LabelNoRule

\* no target so far raised an unexpected error
NoneRaised == outcome /= "raise" /\ \A i \in 1..Len(outcomes) : outcomes[i] /= "raise"

\* no target so far ran into a read timeout
NoneTimedOut ==
  outcome /= "timeout" /\ \A i \in 1..Len(outcomes) : outcomes[i] /= "timeout"

\* a read loop that ended on the prompt at its first read and took nothing of
\* an earlier command returns the clean return of its command
InSyncReturn ==
  (pc \in {"classify", "extract"} /\ endKind = "prompt" /\ spaces = 0 /\ ~stale) =>
    output = CleanReturn(command)

\* in a batch without exceptions, timeouts or disconnection every identifier
\* gets its expected label, paginated or not, when ReadString returns the text
\* before the match (a banner that ReadString returns stays in the capture:
\* lines 71-97 remove only what erases it)
UndisturbedLabels ==
  (connected /\ ~inclMatch /\ NoneRaised /\ NoneTimedOut) =>
    \A i \in 1..Len(results) : results[i] = ExpectedLabel(ips[i])

(***************************************************************************)
(* Isolation of failures, lines 304-366                                    *)
(***************************************************************************)
\* C3, as stated: when the batch has finished over a session that stayed up
\* and had no read timeout (ReadString returning the text before the match),
\* every target that raised carries the generic error label, the batch has
\* one label per row, and every target that did not raise carries the label
\* it gets on its own
ErrorsAreIsolated ==
  (pc = "end" /\ connected /\ ~inclMatch /\ NoneTimedOut) =>
    /\ Len(results) = nrows
    /\ \A i \in 1..Len(results) :
         /\ outcomes[i] = "raise" => results[i] = LabelError
         /\ outcomes[i] = "clean" => results[i] = ExpectedLabel(ips[i])

\* C4, as stated: once the session is disconnected no command is written and
\* no further target is taken up
NoWorkOnceDisconnected ==
  [][~connected => (ncmds' <= ncmds /\ idx' = idx)]_vars

\* C5, as stated: as long as no exception was raised, timeouts included, at
\* most one command is unanswered at any time, and the capture of a command
\* holds no output of an earlier command
OneCommandInFlight ==
  NoneRaised => (Len(pending) <= 1 /\ ~stale)

\* C6, as stated: what a read loop that timed out returns differs from what
\* a clean finish returns for the same command
ReturnTellsTimeout ==
  (pc \in {"classify", "extract"} /\ endKind = "timeout") =>
    output /= CleanReturn(command)

(***************************************************************************)
(* Timeouts and the empty prompt                                           *)
(***************************************************************************)
\* the text the device delivers in a step: what leaves the oldest pending
\* response
Arrived ==
  IF pending = <<>> \/ pending' = pending \/ Len(pending') /= Len(pending)
    THEN <<>>
  ELSE Emit(pending[1], Len(pending[1].lines) - Len(pending'[1].lines))

\* a step in which a ReadString matches no sentinel
TimeoutStep ==
  pc = "read" /\ pc' \in {"classify", "extract"} /\ endKind' = "timeout"

\* what the steps of a target whose read timed out do: the read that matches
\* no sentinel ends the read loop with the arrived text appended to the
\* capture, and writes no space and no command; the capture is cleaned and
\* returned; the target goes on to classification or extraction, its label
\* is appended, and the loop takes the next identifier if there is one
TimeoutHandling ==
  /\ TimeoutStep =>
       /\ output_accumulator' = output_accumulator \o Arrived
       /\ output' = CleanedOutput(output_accumulator', command, prompt)
       /\ spaces' = spaces
       /\ ncmds' = ncmds
       /\ results' = results
  /\ (pc \in {"classify", "extract"} /\ outcome = "timeout") =>
       pc' \in {"send", "append"}
  /\ (pc = "append" /\ outcome = "timeout") =>
       /\ final_result /= <<>>
       /\ results' = Append(results, final_result)
       /\ pc' = "for_ip"
  /\ (pc = "for_ip" /\ pc' /= pc /\ idx >= 1 /\ idx < nrows
        /\ outcomes[idx] = "timeout") =>
       /\ pc' = "send"
       /\ idx' = idx + 1

\* C7: a read timeout is not fatal: every step of the script handles it as
\* TimeoutHandling says
TimeoutIsNotFatal == [][TimeoutHandling]_vars

\* C7, witness: the first target timed out after the header had arrived, was
\* labelled from that partial capture, and the second target is being read
SecondTargetAfterTimeout ==
  /\ pc = "read"
  /\ idx = 2
  /\ outcomes = <<"timeout">>
  /\ results = <<LabelNoRoute>>

\* C8: with an empty prompt main is at most at its return of lines 288-290:
\* no identifier was taken, no command written, no label produced
EmptyPromptAborts ==
  prompt = <<>> =>
    /\ pc \in {"main", "get_prompt", "return_not_connected", "return_no_prompt"}
    /\ idx = 0
    /\ ips = <<>>
    /\ ncmds = 0
    /\ pending = <<>>
    /\ results = <<>>

\* C8, witness: prompt detection gave an empty prompt and main returned
ReturnedForEmptyPrompt ==
  pc = "return_no_prompt" /\ prompt = <<>> /\ connected

(***************************************************************************)
(* The classification of one target, over every kind of lookup answer      *)
(***************************************************************************)
\* the identifier whose lookup answer is drawn
ProbeTarget == <<"9">>

\* the fields of the route rows drawn
Protocols == {IBGP, <<"O">>}

Flags == {<<"D">>, <<"R", "D">>}

NextHops ==
  {<<"1", "2", "4", ".", "9">>, <<"2", "0", "2", ".", "9">>, <<"1", "0", ".", "9">>}

Interfaces == {<<"G", "1">>, <<"G", "2">>, <<"G", "3">>}

\* the answers to the lookup, as lines: a header and a row of any of the
\* fields; nothing; a row without header; a header alone; a row of six fields;
\* a row before the header; a row of six fields before a row of seven
LookupAnswers ==
  {<<HeaderLine, RouteRow(ProbeTarget, p, f, n, i)>> :
     p \in Protocols, f \in Flags, n \in NextHops, i \in Interfaces}
  \cup
  {<<>>,
   <<RouteRow(ProbeTarget, IBGP, <<"D">>, <<"1", "2", "4", ".", "9">>, <<"G", "1">>)>>,
   <<HeaderLine>>,
   <<HeaderLine,
     JoinWords(<<ProbeTarget, IBGP, <<"0">>, <<"D">>, <<"1", "2", "4", ".", "9">>, <<"G", "1">>>>)>>,
   <<RouteRow(ProbeTarget, IBGP, <<"D">>, <<"1", "2", "4", ".", "9">>, <<"G", "1">>),
     HeaderLine>>,
   <<HeaderLine,
     JoinWords(<<ProbeTarget, IBGP, <<"0">>, <<"D">>, <<"1", "2", "4", ".", "9">>, <<"G", "1">>>>),
     RouteRow(ProbeTarget, <<"S">>, <<"R", "D">>, <<"2", "0", "2", ".", "9">>, <<"G", "2">>)>>}

\* main at line 313 for the one identifier of a batch, the lookup having been
\* read whole in one ReadString that ended on the prompt (lines 142-190)
InitClassify ==
  /\ pc = "classify"
  /\ connected = TRUE
  /\ inclMatch \in BOOLEAN
  /\ logger = Logged([w \in Writes |-> SecureCRTLogger])
  /\ pending = <<>>
  /\ prompt = DevicePrompt
  /\ nrows = 1
  /\ ips = <<ProbeTarget>>
  /\ idx = 1
  /\ results = <<>>
  /\ final_result = <<>>
  /\ phase = "lookup"
  /\ command = LookupCommand(ProbeTarget)
  /\ \E answer \in LookupAnswers :
       output_accumulator =
         JoinLines(<<Strip(command)>> \o answer)
           \o (IF inclMatch THEN prompt ELSE <<>>)
  /\ chunks = <<[data |-> output_accumulator, match |-> 2]>>
  /\ endKind = "prompt"
  /\ output = CleanedOutput(output_accumulator, command, prompt)
  /\ output1 = output
  /\ route_info = None
  /\ ncmds = 1
  /\ spaces = 0
  /\ stale = FALSE
  /\ outcome = "clean"
  /\ outcomes = <<>>

\* the steps of main from line 313 on
NextClassify ==
  \/ Classify
  \/ SendCommand
  \/ ReadMore
  \/ ReadPrompt
  \/ ReadTimeout
  \/ ExtractDescription
  \/ UnexpectedError
  \/ AppendResult
  \/ NextTarget
  \/ Disconnect

SpecClassify == InitClassify /\ [][NextClassify]_vars

\* C9: the label of a parsed route record is that of the first rule that
\* applies, in the order: protocol IBGP (the next hop as it is), flag D with
\* an interface (the result of the follow-up on that interface), next hop
\* starting with 124 (new access), next hop starting with 202 (inter
\* province), else the unmatched placeholder; only rule 2 writes a second
\* command
FirstMatchingRuleWins ==
  (pc = "append" /\ outcome /= "raise" /\ route_info.ok) =>
    /\ route_info = parse_routing_info(output1)
    /\ IF route_info.protocol = IBGP
         THEN final_result = route_info.nexthop /\ ncmds = 1
       ELSE IF route_info.flag = <<"D">> /\ route_info.interface /= <<>>
         THEN /\ ncmds = 2
              /\ command = DescCommand(route_info.interface)
              /\ final_result = DescriptionLabel(output, route_info.interface)
       ELSE IF StartsWith(route_info.nexthop, <<"1", "2", "4">>)
         THEN final_result = LabelXinCheng /\ ncmds = 1
       ELSE IF StartsWith(route_info.nexthop, <<"2", "0", "2">>)
         THEN final_result = LabelChuSheng /\ ncmds = 1
       ELSE final_result = LabelNoRule /\ ncmds = 1

\* C9, witness: a record that is IBGP, has flag D and a next hop starting
\* with 124 was labelled with its next hop
IBGPWithFlagDTakesNexthop ==
  /\ pc = "append"
  /\ route_info.ok
  /\ route_info.protocol = IBGP
  /\ route_info.flag = <<"D">>
  /\ StartsWith(route_info.nexthop, <<"1", "2", "4">>)
  /\ final_result = route_info.nexthop
  /\ ncmds = 1

\* a line is a header of the routing table (line 206)
HeaderIn(line) == Contains(line, DestinationMask) /\ Contains(line, NextHop)

\* the output has a row of at least 7 fields after a header line
HasUsableRow(out) ==
  LET lines == SplitLines(out)
  IN  \E h \in 1..Len(lines) :
        /\ HeaderIn(Strip(lines[h]))
        /\ \E r \in (h + 1)..Len(lines) :
             /\ ~HeaderIn(Strip(lines[r]))
             /\ Len(Split(Strip(lines[r]))) >= 7

\* C10, as stated: a target whose lookup output has no usable row is
\* labelled "route not found", and no second command is written
NoRowMeansNoRoute ==
  (pc = "append" /\ outcome /= "raise" /\ ~HasUsableRow(output1)) =>
    /\ final_result = LabelNoRoute
    /\ ncmds = 1

\* C10, amended: a target whose lookup output has no usable row is labelled
\* "route not found" when the output is not empty and "no output" when it is
\* empty; in both cases no rule is applied and no second command is written
NoRowMeansNoRouteOrNoOutput ==
  (pc = "append" /\ outcome /= "raise" /\ ~HasUsableRow(output1)) =>
    /\ final_result = IF output1 = <<>> THEN LabelNoOutput ELSE LabelNoRoute
    /\ route_info = None
    /\ ncmds = 1
    /\ phase = "lookup"

\* C10, witness: an output that is a row without a header before it was
\* labelled "route not found"
HeaderlessRowLabelledNoRoute ==
  /\ pc = "append"
  /\ output1 /= <<>>
  /\ Len(Split(output1)) >= 7
  /\ ~HasUsableRow(output1)
  /\ final_result = LabelNoRoute

(***************************************************************************)
(* The extraction of the description, over every kind of follow-up answer  *)
(***************************************************************************)
\* the largest number of lines of a follow-up answer
MaxDescLines == 2

\* the interface the follow-up asks about
ProbeInterface == <<"G", "1">>

\* the kinds of line of a follow-up answer: a marker line with the prefix and
\* a dot after the name; a line without marker; a marker line without the
\* prefix; the prefix followed at once by a dot; the prefix and a name with
\* no dot after it; the prefix followed by a dot and a second prefix; a
\* marker line after a blank; a description line that has not the marker;
\* an empty line
DescLines ==
  {DescriptionMarker \o AHHF \o <<"X", "A", ".", "r">>,
   <<"#">>,
   DescriptionMarker \o <<"x">>,
   DescriptionMarker \o AHHF \o <<".", "x">>,
   DescriptionMarker \o AHHF \o <<"Y", "B">>,
   DescriptionMarker \o AHHF \o <<".">> \o AHHF \o <<"B", ".", "c">>,
   <<" ">> \o DescriptionMarker \o AHHF \o <<"C", ".", "d">>,
   <<"d", "e", "s", "c", "r", "i", "p", "t", "i", "o", "n", " ">> \o AHHF \o <<"Z", ".", "q">>,
   <<>>}

\* the follow-up answers: at most MaxDescLines lines
DescAnswers ==
  UNION {[1..n -> DescLines] : n \in 0..MaxDescLines}

\* what a read loop returns for a command whose answer arrived whole in one
\* ReadString that ended on the prompt
ReturnFor(cmd, answer, incl) ==
  CleanedOutput(JoinLines(<<Strip(cmd)>> \o answer)
                  \o (IF incl THEN DevicePrompt ELSE <<>>),
                cmd, DevicePrompt)

\* main at line 334 for the one identifier of a batch: the lookup gave a
\* direct route over ProbeInterface and the follow-up was read whole
InitExtract ==
  /\ pc = "extract"
  /\ connected = TRUE
  /\ inclMatch \in BOOLEAN
  /\ logger = Logged([w \in Writes |-> SecureCRTLogger])
  /\ pending = <<>>
  /\ prompt = DevicePrompt
  /\ nrows = 1
  /\ ips = <<ProbeTarget>>
  /\ idx = 1
  /\ results = <<>>
  /\ final_result = <<>>
  /\ phase = "desc"
  /\ command = DescCommand(ProbeInterface)
  /\ \E answer \in DescAnswers :
       output_accumulator =
         JoinLines(<<Strip(command)>> \o answer)
           \o (IF inclMatch THEN prompt ELSE <<>>)
  /\ chunks = <<[data |-> output_accumulator, match |-> 2]>>
  /\ endKind = "prompt"
  /\ output = CleanedOutput(output_accumulator, command, prompt)
  /\ output1 =
       ReturnFor(LookupCommand(ProbeTarget),
                 <<HeaderLine,
                   RouteRow(ProbeTarget, <<"O">>, <<"D">>,
                            <<"1", "2", "4", ".", "9">>, ProbeInterface)>>,
                 inclMatch)
  /\ route_info = parse_routing_info(output1)
  /\ ncmds = 2
  /\ spaces = 0
  /\ stale = FALSE
  /\ outcome = "clean"
  /\ outcomes = <<>>

\* the steps of main from line 334 on
NextExtract ==
  \/ ExtractDescription
  \/ UnexpectedError
  \/ AppendResult
  \/ NextTarget

SpecExtract == InitExtract /\ [][NextExtract]_vars

\* the numbers of the lines of a follow-up output that start with the marker
MarkerLines(out) ==
  {i \in 1..Len(SplitLines(out)) :
     StartsWith(Strip(SplitLines(out)[i]), DescriptionMarker)}

\* the first of them, stripped
FirstMarkerLine(out) == Strip(SplitLines(out)[Least(MarkerLines(out), 0)])

\* the positions of a line where the prefix AH-HF- stands before a character
\* other than "."
NamedAt(line) ==
  {j \in 1..Len(line) :
     /\ OccursAt(line, AHHF, j)
     /\ j + Len(AHHF) <= Len(line)
     /\ line[j + Len(AHHF)] /= "."}

\* the text of a line from position b up to the next "." or the end
UpToDot(line, b) ==
  SubSeq(line, b, Least({e \in b..Len(line) : line[e] = "."}, Len(line) + 1) - 1)

\* C11, as stated: the first line of the follow-up output that starts with
\* the marker decides; if it contains the prefix the label is the text
\* between the prefix and the next ".", else the "unmatched description"
\* placeholder; without a marker line the label is the "description not
\* found" placeholder naming the interface
LabelByPrefixToken ==
  (pc = "append" /\ outcome /= "raise" /\ phase = "desc") =>
    IF MarkerLines(output) = {}
      THEN final_result = LabelDescNotFound(route_info.interface)
    ELSE IF Contains(FirstMarkerLine(output), AHHF)
      THEN final_result =
             UpToDot(FirstMarkerLine(output),
                     Find(FirstMarkerLine(output), AHHF) + Len(AHHF))
    ELSE final_result = LabelSRUnmatched

\* C11, amended: the first line of the follow-up output that starts with the
\* marker decides; the label is the text after the first prefix that is
\* followed by a character other than ".", up to the next "." or the end of
\* the line; if the line has no such prefix the label is the "unmatched
\* description" placeholder; without a marker line the label is the
\* "description not found" placeholder naming the interface
LabelByPrefixPattern ==
  (pc = "append" /\ outcome /= "raise" /\ phase = "desc") =>
    IF MarkerLines(output) = {}
      THEN final_result = LabelDescNotFound(route_info.interface)
    ELSE IF NamedAt(FirstMarkerLine(output)) /= {}
      THEN final_result =
             UpToDot(FirstMarkerLine(output),
                     Least(NamedAt(FirstMarkerLine(output)), 0) + Len(AHHF))
    ELSE final_result = LabelSRUnmatched

\* C11, witness: of two marker lines the first, which has no prefix, decided
FirstOfTwoMarkerLinesDecided ==
  /\ pc = "append"
  /\ phase = "desc"
  /\ Cardinality(MarkerLines(output)) = 2
  /\ \E i \in MarkerLines(output) : NamedAt(Strip(SplitLines(output)[i])) /= {}
  /\ final_result = LabelSRUnmatched

\* the step of get_prompt that reads the cursor row (line 115)
ScreenRead == pc = "get_prompt" /\ pc' /= "get_prompt" /\ connected

\* C12: prompt detection sends a newline to the session and waits before it
\* reads the cursor row: at every read of the cursor row of a connected
\* session the script has sent a text, whose response the device owes or has
\* given and the script has not read from the stream
PromptReadFollowsSend == [][ScreenRead => pending /= <<>>]_vars

(***************************************************************************)
(* clean_terminal_output, lines 78-97, applied to drawn texts              *)
(***************************************************************************)
MaxPieces == 4

\* what the texts are put together from: the characters ESC, "[", a digit,
\* "D", a blank and a letter, a cursor-back code, and the erase sequence of
\* a pagination banner
SanitizePieces ==
  {<<ESC>>, <<"[">>, <<"1">>, <<"D">>, <<" ">>, <<"a">>,
   <<ESC, "[", "1", "D">>,
   <<" ", ESC, "[", "1", "D", " ", ESC, "[", "1", "D">>}

RECURSIVE ConcatPieces(_)
ConcatPieces(ps) ==
  IF ps = <<>> THEN <<>> ELSE ps[1] \o ConcatPieces(Tail(ps))

SanitizeTexts ==
  {ConcatPieces(ps) : ps \in UNION {[1..n -> SanitizePieces] : n \in 0..MaxPieces}}

\* the capture of one call, before line 172
InitSanitize ==
  /\ pc = "clean"
  /\ connected = TRUE
  /\ inclMatch = FALSE
  /\ logger = Logged([w \in Writes |-> SecureCRTLogger])
  /\ pending = <<>>
  /\ prompt = DevicePrompt
  /\ nrows = 1
  /\ ips = <<ProbeTarget>>
  /\ idx = 1
  /\ results = <<>>
  /\ final_result = <<>>
  /\ phase = "lookup"
  /\ command = LookupCommand(ProbeTarget)
  /\ output_accumulator \in SanitizeTexts
  /\ chunks = <<[data |-> output_accumulator, match |-> 2]>>
  /\ endKind = "prompt"
  /\ output = <<>>
  /\ output1 = <<>>
  /\ route_info = None
  /\ ncmds = 1
  /\ spaces = 0
  /\ stale = FALSE
  /\ outcome = "clean"
  /\ outcomes = <<>>

\* line 172: cleaned_output = clean_terminal_output(output_accumulator)
Sanitize ==
  /\ pc = "clean"
  /\ output' = clean_terminal_output(output_accumulator)
  /\ pc' = "cleaned"
  /\ UNCHANGED <<deviceVars, batchVars, final_result, phase, command, endKind,
                 output1, route_info, ncmds, outcome, loopVars>>
  /\ UNCHANGED logger

\* clean_terminal_output applied to its own result
SanitizeAgain ==
  /\ pc = "cleaned"
  /\ output' = clean_terminal_output(output)
  /\ pc' = "cleaned_again"
  /\ UNCHANGED <<deviceVars, batchVars, final_result, phase, command, endKind,
                 output1, route_info, ncmds, outcome, loopVars>>
  /\ UNCHANGED logger

NextSanitize == Sanitize \/ SanitizeAgain

SpecSanitize == InitSanitize /\ [][NextSanitize]_vars

\* C13: clean_terminal_output is idempotent: applied to its own result it
\* changes nothing, for every text over ESC, "[", digits, "D", whitespace and
\* ordinary characters
SanitizeIsIdempotent == [][pc = "cleaned" => output' = output]_vars

\* how often a character stands in a text
CountOf(s, ch) == Cardinality({i \in 1..Len(s) : s[i] = ch})

\* the places of a text where the pagination-overwrite pattern (whitespace,
\* cursor-back, whitespace, cursor-back) stands, from left to right, one
\* after the end of the other
RECURSIVE PatternPlaces(_, _)
PatternPlaces(s, i) ==
  LET m == Least({j \in i..Len(s) : LineOverwriteEnd(s, j) /= 0}, 0)
  IN  IF m = 0 THEN {} ELSE {m} \cup PatternPlaces(s, LineOverwriteEnd(s, m))

\* the cleaned text has one newline for each place of the pattern (the drawn
\* texts have no newline of their own)
EachPatternLeavesOneNewline ==
  pc = "cleaned" =>
    CountOf(output, "\n") = Cardinality(PatternPlaces(output_accumulator, 1))

\* every escape byte of a text starts an escape code: a cursor-back code
\* ESC [ digits D, or the two-character code ESC D (index)
EveryEscapeStartsCode(s) ==
  \A i \in 1..Len(s) :
    s[i] = ESC => \/ CursorBackEnd(s, i) /= 0
                  \/ i < Len(s) /\ s[i + 1] = "D"

\* C14: for a text that contains the pagination-overwrite pattern together
\* with other escape codes, the cleaned text contains no escape byte and has
\* exactly one newline where each pattern stood
PatternTextCleanedOfEscapes ==
  (/\ pc = "cleaned"
   /\ PatternPlaces(output_accumulator, 1) /= {}
   /\ EveryEscapeStartsCode(output_accumulator)) =>
    /\ CountOf(output, ESC) = 0
    /\ CountOf(output, "\n") = Cardinality(PatternPlaces(output_accumulator, 1))

(***************************************************************************)
(* send_command_and_read_output, lines 172-190, applied to drawn captures  *)
(***************************************************************************)
MaxBodyPieces == 3

\* what the bodies are put together from: a blank, a line break, a letter,
\* the text of the command and the text of the prompt
TrimPieces ==
  {<<" ">>, <<"\n">>, <<"x">>, Strip(LookupCommand(ProbeTarget)), DevicePrompt}

TrimBodies ==
  {ConcatPieces(ps) : ps \in UNION {[1..n -> TrimPieces] : n \in 0..MaxBodyPieces}}

\* a capture without escape codes: the echo of the command or none, a body,
\* and the prompt or none
InitTrim ==
  /\ pc = "clean"
  /\ connected = TRUE
  /\ inclMatch = FALSE
  /\ logger = Logged([w \in Writes |-> SecureCRTLogger])
  /\ pending = <<>>
  /\ prompt = DevicePrompt
  /\ nrows = 1
  /\ ips = <<ProbeTarget>>
  /\ idx = 1
  /\ results = <<>>
  /\ final_result = <<>>
  /\ phase = "lookup"
  /\ command = LookupCommand(ProbeTarget)
  /\ \E echo \in {<<>>, Strip(command), command}, body \in TrimBodies,
        tail \in {<<>>, prompt} :
       output_accumulator = echo \o body \o tail
  /\ chunks = <<[data |-> output_accumulator, match |-> 2]>>
  /\ endKind = "prompt"
  /\ output = <<>>
  /\ output1 = <<>>
  /\ route_info = None
  /\ ncmds = 1
  /\ spaces = 0
  /\ stale = FALSE
  /\ outcome = "clean"
  /\ outcomes = <<>>

\* lines 172-190: the capture is cleaned, trimmed and returned
ReturnOutput ==
  /\ pc = "clean"
  /\ output' = CleanedOutput(output_accumulator, command, prompt)
  /\ pc' = "trimmed"
  /\ UNCHANGED <<deviceVars, batchVars, final_result, phase, command, endKind,
                 output1, route_info, ncmds, outcome, loopVars>>
  /\ LogCalls

NextTrim == ReturnOutput

SpecTrim == InitTrim /\ [][NextTrim]_vars

\* C15: for a text of the form echo of the command, body, prompt the
\* trimming returns the body without its surrounding whitespace; if the
\* command text does not stand at the start of the text, the echo removal
\* changes nothing: only the trailing prompt and the surrounding whitespace
\* are removed
TrimReturnsBody ==
  pc = "trimmed" =>
    /\ \A body \in TrimBodies :
         output_accumulator = Strip(command) \o body \o prompt
           => output = Strip(body)
    /\ ~StartsWith(LStrip(output_accumulator), Strip(command)) =>
         IF EndsWith(RStrip(output_accumulator), prompt)
           THEN output =
                  Strip(SubSeq(RStrip(output_accumulator), 1,
                               Len(RStrip(output_accumulator)) - Len(prompt)))
           ELSE output = Strip(output_accumulator)

\* C15, witness: a body that itself holds the command text and the prompt
\* was returned whole, the echo before it and the prompt after it dropped
BodyWithCommandAndPromptReturned ==
  /\ pc = "trimmed"
  /\ output_accumulator =
       Strip(command) \o <<"\n">> \o Strip(command) \o DevicePrompt \o prompt
  /\ output = Strip(command) \o DevicePrompt

(***************************************************************************)
(* parse_routing_info, lines 192-228, applied to drawn lookup outputs      *)
(***************************************************************************)
MaxParseLines == 3

\* the header of the routing table as the device prints it
FullHeader ==
  JoinWords(<<DestinationMask, <<"P", "r", "o", "t", "o">>, <<"P", "r", "e">>,
              <<"C", "o", "s", "t">>, <<"F", "l", "a", "g", "s">>, NextHop,
              <<"I", "n", "t", "e", "r", "f", "a", "c", "e">>>>)

\* the kinds of line of a lookup output: the header; a row of 6 fields; a
\* row of 7 fields with a direct route; a row of 8 fields learnt by IBGP; a
\* blank line; a row of 7 fields that has only one of the two header words
ParseLineKinds ==
  {FullHeader,
   JoinWords(<<ProbeTarget, <<"S">>, <<"0">>, <<"D">>, <<"1", "0", ".", "9">>, <<"G", "3">>>>),
   RouteRow(ProbeTarget, <<"O">>, <<"D">>, <<"1", "2", "4", ".", "9">>, <<"G", "1">>),
   RouteRow(ProbeTarget, IBGP, <<"R", "D">>, <<"2", "0", "2", ".", "9">>, <<"G", "2">>)
     \o <<" ", "x">>,
   <<" ">>,
   JoinWords(<<DestinationMask, <<"a">>, <<"b">>, <<"c">>, <<"d">>, <<"e">>, <<"f">>>>)}

ParseAnswers == UNION {[1..n -> ParseLineKinds] : n \in 0..MaxParseLines}

\* main at line 313 for the one identifier of a batch, the lookup having been
\* read whole in one ReadString that ended on the prompt (lines 142-190)
InitParse ==
  /\ pc = "classify"
  /\ connected = TRUE
  /\ inclMatch \in BOOLEAN
  /\ logger = Logged([w \in Writes |-> SecureCRTLogger])
  /\ pending = <<>>
  /\ prompt = DevicePrompt
  /\ nrows = 1
  /\ ips = <<ProbeTarget>>
  /\ idx = 1
  /\ results = <<>>
  /\ final_result = <<>>
  /\ phase = "lookup"
  /\ command = LookupCommand(ProbeTarget)
  /\ \E answer \in ParseAnswers :
       output_accumulator =
         JoinLines(<<Strip(command)>> \o answer)
           \o (IF inclMatch THEN prompt ELSE <<>>)
  /\ chunks = <<[data |-> output_accumulator, match |-> 2]>>
  /\ endKind = "prompt"
  /\ output = CleanedOutput(output_accumulator, command, prompt)
  /\ output1 = output
  /\ route_info = None
  /\ ncmds = 1
  /\ spaces = 0
  /\ stale = FALSE
  /\ outcome = "clean"
  /\ outcomes = <<>>

SpecParse == InitParse /\ [][NextClassify]_vars

\* the fields of a row as a record: tokens 0, 1, 4, 5, 6
FieldsOf(row) ==
  [ok |-> TRUE,
   destination |-> Split(row)[1],
   protocol |-> Split(row)[2],
   flag |-> Split(row)[5],
   nexthop |-> Split(row)[6],
   interface |-> Split(row)[7]]

\* the numbers of the header lines of an output
HeadersOf(out) ==
  {h \in 1..Len(SplitLines(out)) : HeaderIn(Strip(SplitLines(out)[h]))}

\* the target has been classified and its lookup output is still at hand
Parsed == pc = "append" /\ outcome /= "raise" /\ output1 /= <<>>

\* C16: when the first header line is followed by a data line of 7 fields,
\* the record has destination, protocol, flag, nexthop, interface equal to
\* the tokens 0, 1, 4, 5, 6 of that line; an output with no header line gives
\* None, whatever other lines it has
HeaderThenRowGivesFields ==
  Parsed =>
    LET lines == SplitLines(output1)
        h == Least(HeadersOf(output1), 0)
    IN  /\ (/\ h /= 0
            /\ h < Len(lines)
            /\ ~HeaderIn(Strip(lines[h + 1]))
            /\ Len(Split(Strip(lines[h + 1]))) = 7)
             => route_info = FieldsOf(Strip(lines[h + 1]))
        /\ h = 0 => route_info = None

\* C16, witness: a row of 7 fields that has one of the two header words was
\* taken as the data line after the header
RowWithOneHeaderWordParsed ==
  /\ Parsed
  /\ Len(SplitLines(output1)) = 2
  /\ HeadersOf(output1) = {1}
  /\ route_info.ok
  /\ route_info.destination = DestinationMask
  /\ route_info.flag = <<"d">>

\* the record for the row number r of an output, None for r = 0
RecordOfRow(out, r) ==
  IF r = 0 THEN None ELSE FieldsOf(Strip(SplitLines(out)[r]))

\* C18, as stated: the record is the first non-empty line after the header
\* that has at least 7 fields; shorter lines are skipped; a line before the
\* header and later rows are never used
FirstLongLineAfterHeader ==
  Parsed =>
    LET lines == SplitLines(output1)
        h == Least(HeadersOf(output1), 0)
        rows == {r \in (h + 1)..Len(lines) : Len(Split(Strip(lines[r]))) >= 7}
    IN  route_info =
          IF h = 0 THEN None ELSE RecordOfRow(output1, Least(rows, 0))

\* C18, amended: the record is the first non-empty line after the first
\* header line that is not a header line itself and has at least 7 fields;
\* shorter lines and further header lines are skipped; a line before the
\* header and later rows are never used
FirstLongRowAfterHeader ==
  Parsed =>
    LET lines == SplitLines(output1)
        h == Least(HeadersOf(output1), 0)
        rows == {r \in (h + 1)..Len(lines) :
                   /\ ~HeaderIn(Strip(lines[r]))
                   /\ Len(Split(Strip(lines[r]))) >= 7}
    IN  route_info =
          IF h = 0 THEN None ELSE RecordOfRow(output1, Least(rows, 0))

\* C18, witness: the row of 6 fields after the header was passed over and
\* the row after it was returned
ShortRowSkipped ==
  /\ Parsed
  /\ Len(SplitLines(output1)) = 3
  /\ HeadersOf(output1) = {1}
  /\ Len(Split(Strip(SplitLines(output1)[2]))) = 6
  /\ Len(Split(Strip(SplitLines(output1)[3]))) >= 7
  /\ route_info = RecordOfRow(output1, 3)

\* the lookup produced a record that asks for the follow-up: protocol other
\* than IBGP, flag D and an interface
AsksForFollowUp ==
  /\ route_info.ok
  /\ route_info.protocol /= IBGP
  /\ route_info.flag = <<"D">>
  /\ route_info.interface /= <<>>

\* C17: for every target the lookup is sent first and at most one follow-up
\* after it; the follow-up is sent if and only if the lookup produced a
\* record with protocol other than IBGP, flag D and an interface; no target
\* has more than two commands written to the session
AtMostOneFollowUp ==
  /\ ncmds <= 2
  /\ (pc = "send" /\ ncmds = 0) =>
       phase = "lookup" /\ command = LookupCommand(ips[idx])
  /\ (pc = "send" /\ ncmds = 1) =>
       /\ phase = "desc"
       /\ AsksForFollowUp
       /\ command = DescCommand(route_info.interface)
  /\ pc = "send" => ncmds < 2
  /\ (pc = "append" /\ outcome /= "raise") =>
       /\ ncmds >= 1
       /\ ncmds = 2 <=> AsksForFollowUp

\* C17, witness: a target got its label after two commands, the second one
\* the follow-up for the interface of its record
LabelledAfterFollowUp ==
  /\ pc = "append"
  /\ outcome = "clean"
  /\ ncmds = 2
  /\ command = DescCommand(route_info.interface)
  /\ final_result /= <<>>

(***************************************************************************)
(* The read loop, lines 145-165, with a ReadString that always returns     *)
(***************************************************************************)
\* ReadString returns: with a sentinel, or after its timeout of 10 seconds
\* (lines 140, 147), or by raising
ReadReturns ==
  \/ pc = "read" /\ UnexpectedError
  \/ ReadMore
  \/ ReadPrompt
  \/ ReadTimeout

\* every call of ReadString comes back
FairSpec == Spec /\ WF_vars(ReadReturns)

\* one pass of the loop: the banner keeps it going, however many banners
\* came before; the prompt, a timeout or another match index end it
LoopPass ==
  (pc = "read" /\ Len(chunks') = Len(chunks) + 1) =>
    /\ chunks'[Len(chunks')].match = 1 =>
         pc' = "read" /\ spaces' = spaces + 1
    /\ chunks'[Len(chunks')].match /= 1 =>
         pc' /= "read" /\ spaces' = spaces

\* C19: the read loop ends when the session returns the banner only
\* finitely often: at the first prompt match, timeout or unknown match
\* index; each banner keeps the loop running, with no bound on the number of
\* pages, so a session that answers every space with a banner is read
\* without end
ReadLoopEndsUnlessPaged ==
  /\ (pc = "read") ~> (pc /= "read")
  /\ [][LoopPass]_vars

\* C19, witness: after as many banners as the device has pages the loop is
\* still reading
StillReadingAfterAllPages ==
  /\ pc = "read"
  /\ spaces = MaxMore
  /\ chunks[Len(chunks)].match = 1

MaxOwed == 2

\* line 113: COMMAND_TO_RUN = "ps -ef"
COMMAND_TO_RUN == <<"p", "s", " ", "-", "e", "f">>

\* what the device prints for the command: the echo and the process table
ProcessTable == <<COMMAND_TO_RUN, <<"P", "I", "D">>, <<"1">>>>

\* what it prints for the newline of get_prompt: an empty line
NewlineResponse == <<<<>>>>

\* a response the device owes
Owed(lines) == [id |-> <<0, "monitor">>, lines |-> lines, resumed |-> FALSE]

\* the pcs of the while loop, lines 161-191
InMonitorLoop == {"m_check", "m_send", "m_wait", "m_read", "m_sleep"}

\* the variables of get_ip_info.py's main that the monitor does not have
notInMonitor ==
  <<nrows, ips, idx, results, final_result, phase, command, output_accumulator,
    endKind, output1, route_info, ncmds, spaces, chunks, stale, outcomes>>

InitMonitor ==
  /\ pc = "m_main"
  /\ connected \in BOOLEAN
  /\ inclMatch \in BOOLEAN
  /\ logger = [w \in Writes |-> NoLogger]
  /\ pending = <<>>
  /\ prompt = <<>>
  /\ nrows = 0
  /\ ips = <<>>
  /\ idx = 0
  /\ results = <<>>
  /\ final_result = <<>>
  /\ phase = "lookup"
  /\ command = <<>>
  /\ output_accumulator = <<>>
  /\ endKind = "none"
  /\ output = <<>>
  /\ output1 = <<>>
  /\ route_info = None
  /\ ncmds = 0
  /\ spaces = 0
  /\ chunks = <<>>
  /\ stale = FALSE
  /\ outcome = "clean"
  /\ outcomes = <<>>

\* lines 125-131: the script runs only in a connected session
MonitorCheckConnected ==
  /\ pc = "m_main"
  /\ pc' = IF connected THEN "m_get_prompt" ELSE "m_return_not_connected"
  /\ UNCHANGED <<connected, inclMatch, logger, pending, prompt, output, outcome,
                 notInMonitor>>

\* the device takes a text that is sent to it and owes the response
Queue(lines) ==
  IF connected /\ Len(pending) < MaxOwed
    THEN Append(pending, Owed(lines))
    ELSE pending

\* lines 135-156 and get_prompt, lines 85-108: the logger is made, the start
\* is logged; get_prompt sends a newline, waits, and reads the cursor row;
\* an empty prompt ends the run
MonitorGetPrompt ==
  /\ pc = "m_get_prompt"
  /\ logger' = Logged([w \in Writes |-> SecureCRTLogger])
  /\ pending' = Queue(NewlineResponse)
  /\ \E screen \in ScreenStates :
       /\ prompt' = get_prompt(screen)
       /\ pc' = IF prompt' = <<>> THEN "m_return_no_prompt" ELSE "m_check"
  /\ UNCHANGED <<connected, inclMatch, output, outcome, notInMonitor>>

\* lines 161-168: the check at the start of an iteration; a session seen
\* disconnected ends the loop (break, then line 203)
MonitorCheck ==
  /\ pc = "m_check"
  /\ pc' = IF connected THEN "m_send" ELSE "m_end"
  /\ LogCalls
  /\ UNCHANGED <<connected, inclMatch, pending, prompt, output, outcome,
                 notInMonitor>>

\* line 171: Screen.Send(COMMAND_TO_RUN + "\n"); on a session that dropped
\* after the check the call raises or the text is lost
MonitorSend ==
  /\ pc = "m_send"
  /\ \/ /\ pending' = Queue(ProcessTable)
        /\ pc' = "m_wait"
     \/ /\ ~connected
        /\ pc' = "m_except"
        /\ UNCHANGED pending
  /\ UNCHANGED <<connected, inclMatch, logger, prompt, output, outcome,
                 notInMonitor>>

\* the oldest owed response that still has its echo to come, 0 if none
FirstEcho ==
  Least({j \in 1..Len(pending) :
           pending[j].lines /= <<>> /\ pending[j].lines[1] = COMMAND_TO_RUN}, 0)

\* line 176: WaitForString(COMMAND_TO_RUN.strip(), 5) reads up to the echo
\* of the command, or gives up after 5 seconds; on a dropped session it
\* gives up or raises
MonitorWaitEcho ==
  /\ pc = "m_wait"
  /\ \/ /\ Sending
        /\ FirstEcho /= 0
        /\ pending' =
             <<[pending[FirstEcho] EXCEPT !.lines = Tail(@)]>>
               \o SubSeq(pending, FirstEcho + 1, Len(pending))
        /\ pc' = "m_read"
     \/ /\ pc' = "m_read"
        /\ UNCHANGED pending
     \/ /\ ~connected
        /\ pc' = "m_except"
        /\ UNCHANGED pending
  /\ UNCHANGED <<connected, inclMatch, logger, prompt, output, outcome,
                 notInMonitor>>

\* line 180: output = ReadString(prompt, timeout=10): the rest of the oldest
\* response up to the prompt, or after 10 seconds what arrived of it (maybe
\* nothing); on a dropped session nothing after 10 seconds, or the call
\* raises
MonitorRead ==
  /\ pc = "m_read"
  /\ \/ /\ Sending
        /\ output' = JoinLines(pending[1].lines)
                        \o (IF inclMatch THEN prompt ELSE <<>>)
        /\ pending' = Tail(pending)
        /\ outcome' = "clean"
        /\ pc' = "m_sleep"
     \/ /\ \E k \in 0..(IF Sending THEN Len(pending[1].lines) ELSE 0) :
             /\ output' = IF k = 0 THEN <<>>
                           ELSE JoinLines(SubSeq(pending[1].lines, 1, k))
             /\ pending' = IF k = 0 THEN pending
                            ELSE [pending EXCEPT ![1] = Rest(pending[1], k)]
        /\ outcome' = "timeout"
        /\ pc' = "m_sleep"
     \/ /\ ~connected
        /\ pc' = "m_except"
        /\ outcome' = "raise"
        /\ UNCHANGED <<output, pending>>
  /\ UNCHANGED <<connected, inclMatch, logger, prompt, notInMonitor>>

\* a faulty loop, to test the properties of the monitor against: the check
\* of lines 163-166 standing before the loop, so that an iteration starts
\* with the Send
MonitorSleepSkipsCheck ==
  /\ pc = "m_sleep"
  /\ pc' = "m_send"
  /\ LogCalls
  /\ UNCHANGED <<connected, inclMatch, pending, prompt, output, outcome,
                 notInMonitor>>

\* lines 182-191: the output or the warning is logged, then the script
\* sleeps for LOOP_INTERVAL_SECONDS and the loop starts over
MonitorSleep ==
  /\ pc = "m_sleep"
  /\ pc' = "m_check"
  /\ LogCalls
  /\ UNCHANGED <<connected, inclMatch, pending, prompt, output, outcome,
                 notInMonitor>>

\* lines 193-203: an exception inside the loop is logged and shown, and the
\* script ends
MonitorExcept ==
  /\ pc = "m_except"
  /\ pc' = "m_end"
  /\ LogCalls
  /\ UNCHANGED <<connected, inclMatch, pending, prompt, output, outcome,
                 notInMonitor>>

\* the session drops, and what the device still owed never arrives
MonitorDisconnect ==
  /\ connected
  /\ pc \in InMonitorLoop \cup {"m_get_prompt"}
  /\ connected' = FALSE
  /\ pending' = <<>>
  /\ UNCHANGED <<pc, inclMatch, logger, prompt, output, outcome, notInMonitor>>

\* the steps of the script
MonitorStep ==
  \/ MonitorCheckConnected
  \/ MonitorGetPrompt
  \/ MonitorCheck
  \/ MonitorSend
  \/ MonitorWaitEcho
  \/ MonitorRead
  \/ MonitorSleep
  \/ MonitorExcept

NextMonitor == MonitorStep \/ MonitorDisconnect

SpecMonitor == InitMonitor /\ [][NextMonitor]_vars

\* every call of the script comes back: WaitForString after 5 seconds,
\* ReadString after 10, Sleep after LOOP_INTERVAL_SECONDS
FairMonitor == SpecMonitor /\ WF_vars(MonitorStep)

\* what a step of the monitor loop may do: the loop is entered at the check
\* and left only with the session dropped; the Send is reached only from a
\* check that saw the session connected; a check that sees it dropped ends
\* the script, and an ended script stays ended; a read that times out or
\* returns nothing goes on to the sleep and from there to the next check
MonitorLoopStep ==
  /\ (pc \in InMonitorLoop /\ pc' \notin InMonitorLoop) => ~connected
  /\ (pc' = "m_send" /\ pc /= "m_send") => (pc = "m_check" /\ connected)
  /\ (pc = "m_check" /\ pc' /= pc) =>
       pc' = IF connected THEN "m_send" ELSE "m_end"
  /\ pc = "m_end" => pc' = "m_end" /\ pending' = pending
  /\ (pc = "m_read" /\ pc' /= pc /\ outcome' /= "raise") => pc' = "m_sleep"
  /\ (pc = "m_sleep" /\ pc' /= pc) => pc' = "m_check"

\* C21: the monitor loop runs on while the session stays connected, with
\* the connectivity checked at the start of every iteration: from every
\* point of the loop a further command is sent unless the session drops; a
\* command is sent only after a check that passed; a check that sees the
\* session dropped ends the loop and nothing is sent after it; a read that
\* times out or returns nothing does not end the loop
MonitorRunsWhileConnected ==
  /\ (pc \in InMonitorLoop) ~> (pc = "m_send" \/ ~connected)
  /\ [][MonitorLoopStep]_vars

\* C21, witness: after a read that timed out with no output the loop has
\* passed the next check and is about to send again
SendsAgainAfterTimeout ==
  /\ pc = "m_send"
  /\ connected
  /\ outcome = "timeout"
  /\ output = <<>>
====
